---- MODULE Spec2Model ----
(***************************************************************************)
(* The structured-extraction pipeline of the PDF summary + quiz service:   *)
(* main.py (summarize_and_quiz_pdf_bytes behind the /summarize-quiz form)  *)
(* and server.py (the tools summarize_pdf_from_url and                     *)
(* summarize_and_quiz_pdf_from_url).                                       *)
(*                                                                         *)
(* Texts are TLA+ strings, used as sequences of characters (Len, SubSeq,   *)
(* \o).  A TLA+ string literal cannot hold the backtick character, so the  *)
(* character "^" stands for the backtick throughout: "^^^json" is the      *)
(* opening line of a fenced block.                                         *)
(***************************************************************************)
EXTENDS Integers, Sequences, FiniteSets, TLC

VARIABLES
    client,     \* the module-level genai.Client handle
    call        \* call[c]: the locals of extraction call c

vars == <<client, call>>

-----------------------------------------------------------------------------
(* Bounds of the model *)

\* num_questions ranges over 1..MaxQuestions
MaxQuestions == 2
\* quiz arrays of the generated responses hold 0..MaxQuiz items
MaxQuiz == 2
\* the over-long response is SnippetLen + 1 + PadExtra characters long
PadExtra == 2
\* fragment texts are concatenations of at most MaxFrags fragments
MaxFrags == 4
\* number of concurrent calls of the concurrent specification
NumCalls == 2

-----------------------------------------------------------------------------
(* Characters and strings: str.strip, str.startswith, slicing *)

\* the backtick, see the header
Tick == "^"
\* raw_text.startswith("```")
Fence == "^^^"
\* raw_text.startswith("json")
JsonTag == "json"
\* raw_text[4:]
JsonTagLen == 4
\* raw_text[:300]
SnippetLen == 300

\* the characters str.strip() removes, within the modelled alphabet
Whitespace == {" ", "\n", "\t", "\r"}

\* s[i] as a one-character string; "" past either end
At(s, i) == IF i >= 1 /\ i <= Len(s) THEN SubSeq(s, i, i) ELSE ""

\* s.startswith(p)
StartsWith(s, p) == Len(s) >= Len(p) /\ SubSeq(s, 1, Len(p)) = p

\* s[n:]
DropFirst(s, n) == IF n >= Len(s) THEN "" ELSE SubSeq(s, n + 1, Len(s))

\* s[:n]
TakeFirst(s, n) == IF n >= Len(s) THEN s ELSE SubSeq(s, 1, n)

RECURSIVE LStrip(_, _)
\* s.lstrip(chars)
LStrip(s, chars) ==
    IF Len(s) > 0 /\ At(s, 1) \in chars THEN LStrip(DropFirst(s, 1), chars) ELSE s

RECURSIVE RStrip(_, _)
\* s.rstrip(chars)
RStrip(s, chars) ==
    IF Len(s) > 0 /\ At(s, Len(s)) \in chars
    THEN RStrip(TakeFirst(s, Len(s) - 1), chars)
    ELSE s

\* a mutant of StripChars: every instance of the characters is removed,
\* wherever it stands
RECURSIVE RemoveAll(_, _)
RemoveAll(s, chars) ==
    IF Len(s) = 0 THEN ""
    ELSE (IF At(s, 1) \in chars THEN "" ELSE At(s, 1)) \o RemoveAll(DropFirst(s, 1), chars)

\* s.strip(chars): the characters are removed from both ends only
StripChars(s, chars) == RStrip(LStrip(s, chars), chars)

\* a mutant of Normalize: the text is not trimmed before the fence test
NormalizeUntrimmed(text) ==
    IF StartsWith(text, Fence)
    THEN LET s2 == StripChars(text, {Tick})
         IN  IF StartsWith(s2, JsonTag)
             THEN StripChars(DropFirst(s2, JsonTagLen), Whitespace)
             ELSE s2
    ELSE text

\* The Response Normalizer: response.text.strip(), then, when the text starts
\* with the fence, strip("`") and an optional leading json tag
Normalize(text) ==
    LET s1 == StripChars(text, Whitespace)
    IN  IF StartsWith(s1, Fence)
        THEN LET s2 == StripChars(s1, {Tick})
             IN  IF StartsWith(s2, JsonTag)
                 THEN StripChars(DropFirst(s2, JsonTagLen), Whitespace)
                 ELSE s2
        ELSE s1

\* the mutant of Snippet: the whole text goes into the message
WholeText(text) == text

\* snippet = raw_text[:300]
Snippet(text) == TakeFirst(text, SnippetLen)

-----------------------------------------------------------------------------
(* JSON values.  A value is a record tagged by t:                          *)
(*   [t |-> "str", s], [t |-> "int", i], [t |-> "bool", b], [t |-> "null"],*)
(*   [t |-> "list", l |-> sequence of values],                             *)
(*   [t |-> "obj", o |-> sequence of <<key, value>>] (a dict, in order)    *)

JStr(s) == [t |-> "str", s |-> s]
JInt(i) == [t |-> "int", i |-> i]
JBool(b) == [t |-> "bool", b |-> b]
JNull == [t |-> "null"]
JList(l) == [t |-> "list", l |-> l]
JObj(o) == [t |-> "obj", o |-> o]

Digits == <<"0", "1", "2", "3", "4", "5", "6", "7", "8", "9">>
DigitChars == {Digits[k] : k \in 1..10}
DigitValue(ch) == (CHOOSE k \in 1..10 : Digits[k] = ch) - 1

RECURSIVE NatToStr(_)
NatToStr(n) == IF n < 10 THEN Digits[n + 1] ELSE NatToStr(n \div 10) \o Digits[(n % 10) + 1]

\* str(i) of an integer
IntToStr(i) == IF i < 0 THEN "-" \o NatToStr(0 - i) ELSE NatToStr(i)

(* json.loads, for the grammar of objects, arrays, strings without escape   *)
(* sequences, integers and the literals null, true, false.  A scan returns *)
(* [ok |-> TRUE, v, i] with i the index after the value, or [ok |-> FALSE].*)

ScanFail == [ok |-> FALSE]
ScanOk(v, i) == [ok |-> TRUE, v |-> v, i |-> i]

RECURSIVE SkipWs(_, _)
SkipWs(s, i) == IF At(s, i) \in Whitespace THEN SkipWs(s, i + 1) ELSE i

RECURSIVE StringEnd(_, _)
\* the index of the closing quote of the string whose content starts at i;
\* 0 when the string is unterminated or holds a control character or a backslash
StringEnd(s, i) ==
    LET ch == At(s, i)
    IN  IF ch = "\"" THEN i
        ELSE IF ch \in {"", "\n", "\t", "\r", "\\"} THEN 0
        ELSE StringEnd(s, i + 1)

\* a string, s[i] being its opening quote
ScanString(s, i) ==
    LET e == StringEnd(s, i + 1)
    IN  IF e = 0 THEN ScanFail
        ELSE ScanOk(JStr(IF e = i + 1 THEN "" ELSE SubSeq(s, i + 1, e - 1)), e + 1)

RECURSIVE DigitsEnd(_, _)
DigitsEnd(s, i) == IF At(s, i) \in DigitChars THEN DigitsEnd(s, i + 1) ELSE i

RECURSIVE DigitsValue(_, _, _)
DigitsValue(s, i, e) ==
    IF e <= i THEN 0 ELSE DigitsValue(s, i, e - 1) * 10 + DigitValue(At(s, e - 1))

\* an integer: -? (0 | [1-9][0-9]*); a fraction or an exponent is outside the grammar
ScanInt(s, i) ==
    LET neg == At(s, i) = "-"
        d == IF neg THEN i + 1 ELSE i
        e == DigitsEnd(s, d)
        \* "01" scans as 0 and leaves "1" behind
        e1 == IF At(s, d) = "0" THEN d + 1 ELSE e
    IN  IF e = d \/ At(s, e1) \in {".", "e", "E"} THEN ScanFail
        ELSE ScanOk(JInt(IF neg THEN 0 - DigitsValue(s, d, e1) ELSE DigitsValue(s, d, e1)), e1)

StartsWithAt(s, i, p) == i + Len(p) - 1 <= Len(s) /\ SubSeq(s, i, i + Len(p) - 1) = p

RECURSIVE ScanValue(_, _)
RECURSIVE ScanItems(_, _, _)
RECURSIVE ScanMembers(_, _, _)

\* the elements of an array after its first: i stands after an element
ScanItems(s, i, acc) ==
    LET j == SkipWs(s, i)
    IN  IF At(s, j) = "]" THEN ScanOk(JList(acc), j + 1)
        ELSE IF At(s, j) # "," THEN ScanFail
        ELSE LET r == ScanValue(s, SkipWs(s, j + 1))
             IN  IF r.ok THEN ScanItems(s, r.i, Append(acc, r.v)) ELSE ScanFail

\* one "key": value member at i, then the members after it
ScanMembers(s, i, acc) ==
    IF At(s, i) # "\"" THEN ScanFail
    ELSE LET k == ScanString(s, i)
         IN  IF ~k.ok THEN ScanFail
             ELSE LET c == SkipWs(s, k.i)
                  IN  IF At(s, c) # ":" THEN ScanFail
                      ELSE LET r == ScanValue(s, SkipWs(s, c + 1))
                           IN  IF ~r.ok THEN ScanFail
                               ELSE LET j == SkipWs(s, r.i)
                                        acc1 == Append(acc, <<k.v.s, r.v>>)
                                    IN  IF At(s, j) = "}" THEN ScanOk(JObj(acc1), j + 1)
                                        ELSE IF At(s, j) # "," THEN ScanFail
                                        ELSE ScanMembers(s, SkipWs(s, j + 1), acc1)

ScanValue(s, i) ==
    LET ch == At(s, i)
    IN  IF ch = "\"" THEN ScanString(s, i)
        ELSE IF ch = "{" THEN
            LET j == SkipWs(s, i + 1)
            IN  IF At(s, j) = "}" THEN ScanOk(JObj(<<>>), j + 1)
                ELSE ScanMembers(s, j, <<>>)
        ELSE IF ch = "[" THEN
            LET j == SkipWs(s, i + 1)
            IN  IF At(s, j) = "]" THEN ScanOk(JList(<<>>), j + 1)
                ELSE LET r == ScanValue(s, j)
                     IN  IF r.ok THEN ScanItems(s, r.i, <<r.v>>) ELSE ScanFail
        ELSE IF ch = "-" \/ ch \in DigitChars THEN ScanInt(s, i)
        ELSE IF StartsWithAt(s, i, "null") THEN ScanOk(JNull, i + 4)
        ELSE IF StartsWithAt(s, i, "true") THEN ScanOk(JBool(TRUE), i + 4)
        ELSE IF StartsWithAt(s, i, "false") THEN ScanOk(JBool(FALSE), i + 5)
        ELSE ScanFail

\* json.loads(text): [ok |-> TRUE, v] or, for a JSONDecodeError, [ok |-> FALSE]
JsonLoads(text) ==
    LET r == ScanValue(text, SkipWs(text, 1))
    IN  IF r.ok /\ SkipWs(text, r.i) = Len(text) + 1
        THEN [ok |-> TRUE, v |-> r.v]
        ELSE [ok |-> FALSE]

(* The JSON text of a value, as json.dumps writes it: what the generation  *)
(* service returns when it complies with the prompt.                       *)

RECURSIVE ToJson(_)
RECURSIVE JoinItems(_, _)
RECURSIVE JoinMembers(_, _)

JoinItems(l, k) ==
    IF k > Len(l) THEN ""
    ELSE (IF k > 1 THEN ", " ELSE "") \o ToJson(l[k]) \o JoinItems(l, k + 1)

JoinMembers(o, k) ==
    IF k > Len(o) THEN ""
    ELSE (IF k > 1 THEN ", " ELSE "") \o "\"" \o o[k][1] \o "\": " \o ToJson(o[k][2])
         \o JoinMembers(o, k + 1)

ToJson(v) ==
    CASE v.t = "str" -> "\"" \o v.s \o "\""
      [] v.t = "int" -> IntToStr(v.i)
      [] v.t = "bool" -> IF v.b THEN "true" ELSE "false"
      [] v.t = "null" -> "null"
      [] v.t = "list" -> "[" \o JoinItems(v.l, 1) \o "]"
      [] v.t = "obj" -> "{" \o JoinMembers(v.o, 1) \o "}"

-----------------------------------------------------------------------------
(* Optional values: a Python name that is None or unbound, or holds a value *)

None == [some |-> FALSE]
Some(x) == [some |-> TRUE, val |-> x]

-----------------------------------------------------------------------------
(* The schema: QuizItem, PdfSummaryWithQuiz, PdfSummary, validated the way  *)
(* pydantic validates a parsed dict (parse_obj, lax mode): a str field      *)
(* takes a string only, an int field takes an integer, a bool or a string   *)
(* of digits, extra keys are ignored.                                       *)

Missing == [t |-> "missing"]

RECURSIVE LookupFrom(_, _, _)
LookupFrom(o, key, k) ==
    IF k = 0 THEN Missing
    ELSE IF o[k][1] = key THEN o[k][2]
    ELSE LookupFrom(o, key, k - 1)

\* data.get(key): the value of the last member named key
Lookup(obj, key) == LookupFrom(obj.o, key, Len(obj.o))

\* one line of a ValidationError: the field's location and the error type
FieldError(loc, type) == [loc |-> loc, type |-> type]

\* a string an int field parses: an optional sign and digits
IsIntString(s) ==
    LET d == IF At(s, 1) = "-" THEN DropFirst(s, 1) ELSE s
    IN  Len(d) > 0 /\ DigitsEnd(d, 1) = Len(d) + 1

\* question: str, summary: str
StrErrors(v, loc) ==
    IF v.t = "missing" THEN {FieldError(loc, "missing")}
    ELSE IF v.t # "str" THEN {FieldError(loc, "string_type")}
    ELSE {}

\* correct_index: int
IntErrors(v, loc) ==
    IF v.t = "missing" THEN {FieldError(loc, "missing")}
    ELSE IF v.t \in {"int", "bool"} THEN {}
    ELSE IF v.t = "str"
         THEN IF IsIntString(v.s) THEN {} ELSE {FieldError(loc, "int_parsing")}
    ELSE {FieldError(loc, "int_type")}

\* the value an int field holds after coercion
IntValue(v) ==
    CASE v.t = "int" -> v.i
      [] v.t = "bool" -> IF v.b THEN 1 ELSE 0
      [] v.t = "str" ->
            IF At(v.s, 1) = "-"
            THEN 0 - DigitsValue(v.s, 2, Len(v.s) + 1)
            ELSE DigitsValue(v.s, 1, Len(v.s) + 1)

\* explanation: Optional[str] = None
OptStrErrors(v, loc) ==
    IF v.t \in {"missing", "null", "str"} THEN {} ELSE {FieldError(loc, "string_type")}

\* choices: List[str]
StrListErrors(v, loc) ==
    IF v.t = "missing" THEN {FieldError(loc, "missing")}
    ELSE IF v.t # "list" THEN {FieldError(loc, "list_type")}
    ELSE UNION {StrErrors(v.l[k], loc \o "." \o IntToStr(k - 1)) : k \in 1..Len(v.l)}

\* the errors of one quiz entry validated as a QuizItem
QuizItemErrors(v, loc) ==
    IF v.t # "obj" THEN {FieldError(loc, "model_type")}
    ELSE StrErrors(Lookup(v, "question"), loc \o ".question")
         \cup StrListErrors(Lookup(v, "choices"), loc \o ".choices")
         \cup IntErrors(Lookup(v, "correct_index"), loc \o ".correct_index")
         \cup OptStrErrors(Lookup(v, "explanation"), loc \o ".explanation")

\* the QuizItem built from a valid entry
QuizItem(v) ==
    [question |-> Lookup(v, "question").s,
     choices |-> [k \in 1..Len(Lookup(v, "choices").l) |-> Lookup(v, "choices").l[k].s],
     correct_index |-> IntValue(Lookup(v, "correct_index")),
     explanation |-> IF Lookup(v, "explanation").t = "str"
                     THEN Some(Lookup(v, "explanation").s)
                     ELSE None]

\* quiz: List[QuizItem]
QuizErrors(v, loc) ==
    IF v.t = "missing" THEN {FieldError(loc, "missing")}
    ELSE IF v.t # "list" THEN {FieldError(loc, "list_type")}
    ELSE UNION {QuizItemErrors(v.l[k], loc \o "." \o IntToStr(k - 1)) : k \in 1..Len(v.l)}

\* the errors of data validated as a PdfSummaryWithQuiz
PdfSummaryWithQuizErrors(data) ==
    IF data.t # "obj" THEN {FieldError("", "model_type")}
    ELSE StrErrors(Lookup(data, "summary"), "summary")
         \cup QuizErrors(Lookup(data, "quiz"), "quiz")

\* the mutant of PdfSummaryWithQuiz: the quiz is built back to front
PdfSummaryWithQuizReversed(data) ==
    LET q == Lookup(data, "quiz").l
    IN  [summary |-> Lookup(data, "summary").s,
         quiz |-> [k \in 1..Len(q) |-> QuizItem(q[Len(q) + 1 - k])]]

\* the PdfSummaryWithQuiz built from valid data: the items in the order of data
PdfSummaryWithQuiz(data) ==
    LET q == Lookup(data, "quiz").l
    IN  [summary |-> Lookup(data, "summary").s,
         quiz |-> [k \in 1..Len(q) |-> QuizItem(q[k])]]

\* the mutant of ParseObj: the prompt's requirements are enforced as well
\* (4 choices, correct_index within the choices)
ParseObjEnforcing(data) ==
    LET errors == PdfSummaryWithQuizErrors(data)
        result == PdfSummaryWithQuiz(data)
        range == IF errors # {}
                 THEN {}
                 ELSE {FieldError("quiz." \o IntToStr(k - 1), "value_error") :
                        k \in {j \in 1..Len(result.quiz) :
                                 \/ Len(result.quiz[j].choices) # 4
                                 \/ result.quiz[j].correct_index < 0
                                 \/ result.quiz[j].correct_index >= Len(result.quiz[j].choices)}}
    IN  IF errors \cup range = {}
        THEN [ok |-> TRUE, result |-> result]
        ELSE [ok |-> FALSE, errors |-> errors \cup range]

\* PdfSummaryWithQuiz.parse_obj(data): the model, or the ValidationError
ParseObj(data) ==
    LET errors == PdfSummaryWithQuizErrors(data)
    IN  IF errors = {}
        THEN [ok |-> TRUE, result |-> PdfSummaryWithQuiz(data)]
        ELSE [ok |-> FALSE, errors |-> errors]

\* PdfSummary(summary=summary_text), summary_text being response.text
PdfSummary(summary_text) ==
    IF summary_text.some
    THEN [ok |-> TRUE, result |-> [summary |-> summary_text.val]]
    ELSE [ok |-> FALSE, errors |-> {FieldError("summary", "string_type")}]

-----------------------------------------------------------------------------
(* The inputs of a call and the answers of its collaborators *)

\* the three extraction operations: summarize_and_quiz_pdf_bytes (main.py, called
\* by the /summarize-quiz handler), and the two tools of server.py
Operations == {"bytes", "quiz_url", "summary_url"}
QuizOperations == {"bytes", "quiz_url"}
UrlOperations == {"quiz_url", "summary_url"}

\* pdf_url as the caller gives it
Urls == {"http://h/a.pdf", " http://h/b.pdf\n"}

\* what httpx.get and raise_for_status do: the body, or an exception
DownloadOutcomes == {"ok", "HTTPStatusError", "ConnectError"}

\* the instruction text of the quiz operations, a function of num_questions alone
SystemPrompt(num_questions) ==
    "quiz: exactly " \o IntToStr(num_questions) \o " items, 4 choices, correct_index 0..3"

\* the default prompt of summarize_pdf_from_url
DefaultPrompt == "summarize in 5 sentences"

Choices4 == JList(<<JStr("a"), JStr("b"), JStr("c"), JStr("d")>>)
Choices3 == JList(<<JStr("a"), JStr("b"), JStr("c")>>)

\* quiz entries as the prompt asks for them
ItemA ==
    JObj(<< <<"question", JStr("q1")>>, <<"choices", Choices4>>,
            <<"correct_index", JInt(1)>>, <<"explanation", JStr("e1")>> >>)
ItemB ==
    JObj(<< <<"question", JStr("q2")>>, <<"choices", Choices4>>,
            <<"correct_index", JInt(0)>> >>)
\* 3 choices and an index outside them
ItemOdd ==
    JObj(<< <<"question", JStr("q3")>>, <<"choices", Choices3>>,
            <<"correct_index", JInt(5)>>, <<"explanation", JNull>> >>)
\* the index as a string of digits
ItemStrIndex ==
    JObj(<< <<"question", JStr("q4")>>, <<"choices", Choices4>>,
            <<"correct_index", JStr("2")>> >>)

ItemPool == {ItemA, ItemB, ItemOdd, ItemStrIndex}

\* the sequences over S of length 0..n
SeqsUpTo(S, n) == UNION {[1..k -> S] : k \in 0..n}

SummaryWithQuizValue(summary, quiz) ==
    JObj(<< <<"summary", summary>>, <<"quiz", JList(quiz)>> >>)

\* objects of the requested shape, with 0..MaxQuiz quiz entries
ShapedValues == {SummaryWithQuizValue(JStr("s"), q) : q \in SeqsUpTo(ItemPool, MaxQuiz)}

\* values of another shape
OtherValues ==
    {JObj(<< <<"summary", JStr("x")>> >>),
     JObj(<< <<"quiz", JList(<<>>)>> >>),
     SummaryWithQuizValue(JNull, <<>>),
     SummaryWithQuizValue(JList(<<JStr("s")>>), <<ItemA>>),
     JObj(<< <<"summary", JStr("s")>>, <<"quiz", JStr("none")>> >>),
     JObj(<< <<"summary", JStr("s")>>, <<"quiz", ItemA>> >>),
     SummaryWithQuizValue(JStr("s"), <<JObj(<< <<"question", JStr("q")>> >>)>>),
     SummaryWithQuizValue(JStr("s"), <<ItemA, JStr("q")>>),
     SummaryWithQuizValue(JStr("s"),
        <<JObj(<< <<"question", JStr("q")>>, <<"choices", Choices4>>,
                  <<"correct_index", JStr("x")>> >>)>>),
     SummaryWithQuizValue(JStr("s"),
        <<JObj(<< <<"question", JStr("q")>>, <<"choices", JStr("abcd")>>,
                  <<"correct_index", JNull>> >>)>>),
     SummaryWithQuizValue(JStr("s"),
        <<JObj(<< <<"question", JNull>>, <<"choices", JList(<<JStr("a"), JNull>>)>>,
                  <<"correct_index", JInt(0)>>, <<"explanation", JInt(7)>> >>)>>),
     JObj(<< <<"summary", JStr("a^b")>>, <<"quiz", JList(<<ItemB>>)>>, <<"model", JInt(25)>> >>),
     JList(<<>>),
     JNull,
     JInt(5)}

\* payloads that are wrapped the ways a generator wraps its answer
WrappedValues ==
    {SummaryWithQuizValue(JStr("s"), <<ItemA>>),
     SummaryWithQuizValue(JStr("use ^x^"), <<ItemB, ItemA>>),
     JObj(<< <<"summary", JStr("x")>> >>)}

Wrap(kind, body) ==
    CASE kind = "fence_json" -> "^^^json\n" \o body \o "\n^^^"
      [] kind = "fence" -> "^^^\n" \o body \o "\n^^^"
      [] kind = "fence_json_glued" -> " ^^^json" \o body \o "^^^\n"
      [] kind = "fence_json_fence" -> "^^^json^^^" \o body
      [] kind = "padded" -> "\n " \o body \o " \n"
      [] kind = "prose" -> "Here is the JSON: " \o body

Wrappers == {"fence_json", "fence", "fence_json_glued", "fence_json_fence", "padded", "prose"}

RECURSIVE Pad(_)
\* n characters "x"
Pad(n) ==
    IF n = 0 THEN ""
    ELSE LET half == Pad(n \div 2)
         IN  IF n % 2 = 0 THEN half \o half ELSE half \o half \o "x"

\* a text that is no JSON and is longer than the snippet
LongText == "{" \o Pad(SnippetLen + PadExtra)

\* texts that are no JSON
BrokenTexts ==
    {"{\"summary\": \"x\", \"quiz\": [}",
     "",
     "I cannot read this PDF.",
     "{\"summary\": \"x\", \"quiz\": [],}",
     LongText,
     "^^^json\n" \o LongText \o "\n^^^"}

\* response.text of the responses the generation service can give
ResponseTexts ==
    {ToJson(v) : v \in ShapedValues \cup OtherValues}
    \cup {Wrap(w, ToJson(v)) : w \in Wrappers, v \in WrappedValues}
    \cup BrokenTexts

\* what client.models.generate_content does: it raises, or it returns a response
\* whose text is a string or None (a response without a text part)
GenerationError(cause) == [raised |-> TRUE, cause |-> cause]
Response(text) == [raised |-> FALSE, text |-> text]

GenerationOutcomes ==
    {GenerationError(e) : e \in {"ServerError", "ClientError"}}
    \cup {Response(None)}
    \cup {Response(Some(t)) : t \in ResponseTexts}

\* the fragments a response text is assembled from in the normalizer's specification
Fragments == {"^^^", "^", " ", "\n", "json", "{}", "a^b"}

RECURSIVE Concat(_, _)
Concat(q, k) == IF k > Len(q) THEN "" ELSE q[k] \o Concat(q, k + 1)

FragmentTexts == {Concat(q, 1) : q \in SeqsUpTo(Fragments, MaxFrags)}

FragmentOutcomes == {Response(Some(t)) : t \in FragmentTexts}

\* the answers of the concurrent specification
ConcurrentOutcomes ==
    {GenerationError("ServerError"),
     Response(None),
     Response(Some(ToJson(SummaryWithQuizValue(JStr("s"), <<ItemA>>)))),
     Response(Some(Wrap("fence", ToJson(JObj(<< <<"summary", JStr("x")>> >>))))),
     Response(Some("I cannot read this PDF."))}

-----------------------------------------------------------------------------
(* The state of one call: its position pc, the arguments and locals of the  *)
(* operation, the outcome (status, result or error, and the page the form   *)
(* handler renders), and the record of what the collaborators did: fetched  *)
(* (httpx), answer and gen_calls (the generation service), trace (the steps *)
(* entered).                                                                *)

\* the RuntimeError a step raises, named by its message:
\*   DownloadFailure    "PDF 다운로드 실패 (url=...): ..."
\*   GenerationFailure  "Gemini 요약+퀴즈 호출 실패: ..." / "Gemini 요약 호출 실패: ..."
\*   MalformedResponse  "Gemini가 올바른 JSON을 반환하지 않았습니다: ...\n응답 앞부분: ..."
\*   SchemaViolation    "JSON을 PdfSummaryWithQuiz 구조로 변환하는 데 실패했습니다: ...\ndata=..."
RuntimeError(kind, cause, url, snippet, data, errors) ==
    [exc |-> "RuntimeError", kind |-> kind, cause |-> cause, url |-> url,
     snippet |-> snippet, data |-> data, errors |-> errors]

\* a pydantic ValidationError that leaves the operation as it is, in no RuntimeError
BareValidationError(errors) ==
    [exc |-> "ValidationError", kind |-> "Unclassified", cause |-> "ValidationError",
     url |-> None, snippet |-> None, data |-> None, errors |-> errors]

IdleCall ==
    [pc |-> "idle", op |-> "none", pdf_url |-> "", num_questions |-> 0, prompt |-> "",
     pdf_bytes |-> None, response |-> None, raw_text |-> None, data |-> None,
     status |-> "running", result |-> None, error |-> None, page |-> "",
     fetched |-> None, answer |-> None, gen_calls |-> 0, trace |-> <<>>]

\* the call ends with an exception; the /summarize-quiz handler renders the error page
Raise(rec, err) ==
    [rec EXCEPT !.pc = "done", !.status = "Failed", !.error = Some(err),
                !.page = IF rec.op = "bytes" THEN "error" ELSE ""]

\* the call returns result; the /summarize-quiz handler renders the result page
Return(rec, result) ==
    [rec EXCEPT !.pc = "done", !.status = "Success", !.result = Some(result),
                !.page = IF rec.op = "bytes" THEN "result" ELSE ""]

Enter(rec, step) == [rec EXCEPT !.trace = Append(@, step)]

-----------------------------------------------------------------------------
(* The steps of a call *)

\* A caller invokes an operation.  The form handler reads the upload and calls
\* summarize_and_quiz_pdf_bytes; a tool call starts with _download_pdf.
Start(c, ops) ==
    /\ call[c].pc = "idle"
    /\ \E op \in ops, url \in Urls, n \in 1..MaxQuestions :
        /\ op \in UrlOperations \/ url = "http://h/a.pdf"
        /\ op \in QuizOperations \/ n = 1
        /\ call' = [call EXCEPT ![c] =
              [@ EXCEPT !.op = op,
                        !.pdf_url = IF op \in UrlOperations THEN url ELSE "",
                        !.num_questions = IF op \in QuizOperations THEN n ELSE 0,
                        !.prompt = IF op \in QuizOperations THEN SystemPrompt(n) ELSE DefaultPrompt,
                        !.pdf_bytes = IF op = "bytes" THEN Some("%PDF-upload") ELSE None,
                        !.pc = IF op \in UrlOperations THEN "downloading" ELSE "generating"]]
    /\ UNCHANGED client

\* the mutant of DownloadResult: raise_for_status is left out, an error page's body
\* is taken for the PDF
DownloadResultUnchecked(pdf_url, outcome) ==
    IF outcome = "ConnectError"
    THEN [ok |-> FALSE,
          error |-> RuntimeError("DownloadFailure", outcome,
                                 Some(StripChars(pdf_url, Whitespace)), None, None, {})]
    ELSE [ok |-> TRUE, content |-> "%PDF-download"]

\* _download_pdf: the body of the stripped URL, or the RuntimeError that wraps
\* what httpx raised
DownloadResult(pdf_url, outcome) ==
    IF outcome = "ok"
    THEN [ok |-> TRUE, content |-> "%PDF-download"]
    ELSE [ok |-> FALSE,
          error |-> RuntimeError("DownloadFailure", outcome,
                                 Some(StripChars(pdf_url, Whitespace)), None, None, {})]

\* pdf_bytes = _download_pdf(pdf_url)
Download(c) ==
    /\ call[c].pc = "downloading"
    /\ \E outcome \in DownloadOutcomes :
        LET rec == [Enter(call[c], "Downloading") EXCEPT !.fetched = Some(outcome)]
            r == DownloadResult(rec.pdf_url, outcome)
        IN  call' = [call EXCEPT ![c] =
                IF r.ok
                THEN [rec EXCEPT !.pdf_bytes = Some(r.content), !.pc = "generating"]
                ELSE Raise(rec, r.error)]
    /\ UNCHANGED client

\* response = client.models.generate_content(...), inside the try block.
\* summarize_pdf_from_url reads response.text in the same block and goes on to
\* build its PdfSummary; the quiz operations go on to response.text.strip().
Generate(c, outcomes) ==
    /\ call[c].pc = "generating"
    /\ client.api_key # ""
    /\ \E outcome \in outcomes :
        LET rec == [Enter(call[c], "Generating") EXCEPT !.gen_calls = @ + 1,
                                                        !.answer = Some(outcome)]
        IN  call' = [call EXCEPT ![c] =
                IF outcome.raised
                THEN Raise(rec, RuntimeError("GenerationFailure", outcome.cause,
                                             None, None, None, {}))
                ELSE [rec EXCEPT !.response = Some([text |-> outcome.text]),
                                 !.pc = IF rec.op = "summary_url"
                                        THEN "validating" ELSE "normalizing"]]
    /\ UNCHANGED client

\* raw_text = response.text.strip() and the fence handling, inside the try block:
\* with no text, None.strip() raises AttributeError, which `except Exception` wraps
NormalizeText(c) ==
    /\ call[c].pc = "normalizing"
    /\ LET rec == Enter(call[c], "Normalizing")
           text == rec.response.val.text
       IN  call' = [call EXCEPT ![c] =
               IF ~text.some
               THEN Raise(rec, RuntimeError("GenerationFailure", "AttributeError",
                                            None, None, None, {}))
               ELSE [rec EXCEPT !.raw_text = Some(Normalize(text.val)),
                                !.pc = "parsing"]]
    /\ UNCHANGED client

\* the mutant of ParseJson: raw_text is a module-level name, the one call 1 wrote
ParseJsonShared(c) ==
    /\ call[c].pc = "parsing"
    /\ call[1].raw_text.some
    /\ LET rec == [Enter(call[c], "Parsing") EXCEPT !.raw_text = call[1].raw_text]
           r == JsonLoads(rec.raw_text.val)
       IN  call' = [call EXCEPT ![c] =
               IF r.ok
               THEN [rec EXCEPT !.data = Some(r.v), !.pc = "validating"]
               ELSE Raise(rec, RuntimeError("MalformedResponse", "JSONDecodeError", None,
                                            Some(Snippet(rec.raw_text.val)), None, {}))]
    /\ UNCHANGED client

\* data = json.loads(raw_text), and the `except JSONDecodeError` clause
ParseJson(c) ==
    /\ call[c].pc = "parsing"
    /\ LET rec == Enter(call[c], "Parsing")
           r == JsonLoads(rec.raw_text.val)
       IN  call' = [call EXCEPT ![c] =
               IF r.ok
               THEN [rec EXCEPT !.data = Some(r.v), !.pc = "validating"]
               ELSE Raise(rec, RuntimeError("MalformedResponse", "JSONDecodeError", None,
                                            Some(Snippet(rec.raw_text.val)), None, {}))]
    /\ UNCHANGED client

\* the mutant of Validate: the quiz operations build the model outside any try
\* block, as summarize_pdf_from_url does
ValidateUnwrapped(c) ==
    /\ call[c].pc = "validating"
    /\ LET rec == Enter(call[c], "Validating")
           r == IF rec.op = "summary_url"
                THEN PdfSummary(rec.response.val.text)
                ELSE ParseObj(rec.data.val)
       IN  call' = [call EXCEPT ![c] =
               IF r.ok THEN Return(rec, r.result)
               ELSE Raise(rec, BareValidationError(r.errors))]
    /\ UNCHANGED client

\* The last step.  The quiz operations: PdfSummaryWithQuiz.parse_obj(data) in a try
\* block, return result.  summarize_pdf_from_url: return PdfSummary(summary=
\* summary_text), outside any try block.
Validate(c) ==
    /\ call[c].pc = "validating"
    /\ LET rec == Enter(call[c], "Validating")
       IN  call' = [call EXCEPT ![c] =
               IF rec.op = "summary_url"
               THEN LET r == PdfSummary(rec.response.val.text)
                    IN  IF r.ok THEN Return(rec, r.result)
                        ELSE Raise(rec, BareValidationError(r.errors))
               ELSE LET r == ParseObj(rec.data.val)
                    IN  IF r.ok THEN Return(rec, r.result)
                        ELSE Raise(rec, RuntimeError("SchemaViolation", "ValidationError",
                                                     None, None, rec.data, r.errors))]
    /\ UNCHANGED client

-----------------------------------------------------------------------------
(* Specifications *)

\* client = genai.Client(api_key=GEMINI_API_KEY), built once when the module loads
ClientHandle == [api_key |-> "GEMINI_API_KEY"]

\* one call of any of the three operations
Init ==
    /\ client = ClientHandle
    /\ call = [c \in 1..1 |-> IdleCall]

Next ==
    \E c \in 1..1 :
        \/ Start(c, Operations)
        \/ Download(c)
        \/ Generate(c, GenerationOutcomes)
        \/ NormalizeText(c)
        \/ ParseJson(c)
        \/ Validate(c)

Spec == Init /\ [][Next]_vars

\* the normalizer on every text assembled from the fragments
NormNext ==
    \E c \in 1..1 :
        \/ Start(c, {"bytes"})
        \/ Generate(c, FragmentOutcomes)
        \/ NormalizeText(c)
        \/ ParseJson(c)
        \/ Validate(c)

NormSpec == Init /\ [][NormNext]_vars

\* NumCalls requests to /summarize-quiz in flight at once
ConcInit ==
    /\ client = ClientHandle
    /\ call = [c \in 1..NumCalls |-> IdleCall]

ConcNext ==
    \E c \in 1..NumCalls :
        \/ Start(c, {"bytes"})
        \/ Generate(c, ConcurrentOutcomes)
        \/ NormalizeText(c)
        \/ ParseJson(c)
        \/ Validate(c)

ConcSpec == ConcInit /\ [][ConcNext]_vars

-----------------------------------------------------------------------------
(* Vocabulary of the properties *)

Calls == DOMAIN call

Done(c) == call[c].pc = "done"

\* the generation service returned a response with a text
HasText(c) ==
    call[c].answer.some /\ ~call[c].answer.val.raised /\ call[c].answer.val.text.some

Text(c) == call[c].answer.val.text.val

Least(S) == CHOOSE x \in S : \A y \in S : x <= y
Greatest(S) == CHOOSE x \in S : \A y \in S : x >= y

\* s from its first to its last character outside chars
Core(s, chars) ==
    LET keep == {i \in 1..Len(s) : At(s, i) \notin chars}
    IN  IF keep = {} THEN "" ELSE SubSeq(s, Least(keep), Greatest(keep))

CountOf(s, ch) == Cardinality({i \in 1..Len(s) : At(s, i) = ch})

NoOuterWhitespace(s) == At(s, 1) \notin Whitespace /\ At(s, Len(s)) \notin Whitespace

\* the trimmed response text begins with the fence
Fenced(c) == HasText(c) /\ StartsWith(Core(Text(c), Whitespace), Fence)

IsStrList(v) == v.t = "list" /\ \A k \in 1..Len(v.l) : v.l[k].t = "str"

\* v has the fields of a QuizItem with their types; with lax, correct_index may
\* also be a boolean or a string of digits
ItemHasTypes(v, lax) ==
    /\ v.t = "obj"
    /\ Lookup(v, "question").t = "str"
    /\ IsStrList(Lookup(v, "choices"))
    /\ LET ci == Lookup(v, "correct_index")
       IN  \/ ci.t = "int"
           \/ lax /\ ci.t = "bool"
           \/ lax /\ ci.t = "str" /\ IsIntString(ci.s)
    /\ Lookup(v, "explanation").t \in {"missing", "null", "str"}

\* data has the SummaryWithQuiz shape
HasShape(data, lax) ==
    /\ data.t = "obj"
    /\ Lookup(data, "summary").t = "str"
    /\ Lookup(data, "quiz").t = "list"
    /\ \A k \in 1..Len(Lookup(data, "quiz").l) : ItemHasTypes(Lookup(data, "quiz").l[k], lax)

ErrorKinds == {"DownloadFailure", "GenerationFailure", "MalformedResponse", "SchemaViolation"}

StepRank(step) ==
    CASE step = "Downloading" -> 0
      [] step = "Generating" -> 1
      [] step = "Normalizing" -> 2
      [] step = "Parsing" -> 3
      [] step = "Validating" -> 4

-----------------------------------------------------------------------------
(* C1 *)

\* the objects the prompt asks for: n entries, each with 4 choices and an index
\* within them
ConformingValues(n) ==
    {SummaryWithQuizValue(JStr("s"), q) : q \in [1..n -> {ItemA, ItemB}]}

\* C1: when the generation call of a quiz operation returns the JSON text of an
\* object of the schema with exactly num_questions quiz entries, the call ends
\* in Success, and its result has the summary of the source object and the
\* num_questions entries of the source quiz, field by field, in the same order.
C1_ConformingResponseSucceeds ==
    \A c \in Calls :
        (Done(c) /\ call[c].op \in QuizOperations /\ HasText(c)) =>
            \A v \in ConformingValues(call[c].num_questions) :
                Text(c) = ToJson(v) =>
                    /\ call[c].status = "Success"
                    /\ call[c].result.val.summary = Lookup(v, "summary").s
                    /\ Len(call[c].result.val.quiz) = call[c].num_questions
                    /\ \A k \in 1..call[c].num_questions :
                        LET item == call[c].result.val.quiz[k]
                            source == Lookup(v, "quiz").l[k]
                        IN  /\ item.question = Lookup(source, "question").s
                            /\ Len(item.choices) = Len(Lookup(source, "choices").l)
                            /\ \A j \in 1..Len(item.choices) :
                                 item.choices[j] = Lookup(source, "choices").l[j].s
                            /\ item.correct_index = Lookup(source, "correct_index").i

\* a call for 2 questions answered with the entries q1, q2 has returned them in
\* that order
C1_Witness ==
    \E c \in Calls :
        /\ Done(c) /\ call[c].num_questions = 2 /\ HasText(c)
        /\ Text(c) = ToJson(SummaryWithQuizValue(JStr("s"), <<ItemA, ItemB>>))
        /\ call[c].status = "Success"
        /\ call[c].result.val.quiz[1].question = "q1"
        /\ call[c].result.val.quiz[2].question = "q2"

-----------------------------------------------------------------------------
(* C2 *)

\* C2: every call enters its steps in the order Generating, Normalizing,
\* Parsing, Validating, invokes the generation service at most once, is
\* finished exactly when it has an outcome, and its outcome is either Success
\* with a result or Failed with a RuntimeError of one of the four kinds.
C2_OneClassifiedOutcome ==
    \A c \in Calls :
        LET r == call[c]
        IN  /\ \A i, j \in 1..Len(r.trace) :
                 i < j => StepRank(r.trace[i]) < StepRank(r.trace[j])
            /\ r.gen_calls <= 1
            /\ (r.pc = "done") <=> (r.status # "running")
            /\ r.status = "Success" => r.result.some /\ ~r.error.some
            /\ r.status = "Failed" =>
                 /\ ~r.result.some
                 /\ r.error.some
                 /\ r.error.val.exc = "RuntimeError"
                 /\ r.error.val.kind \in ErrorKinds

-----------------------------------------------------------------------------
(* C3 *)

-----------------------------------------------------------------------------
(* C4 *)

\* the outcome of a quiz call that failed validation
SchemaViolationRaised(c) ==
    /\ call[c].status = "Failed"
    /\ ~call[c].result.some
    /\ call[c].error.val.exc = "RuntimeError"
    /\ call[c].error.val.kind = "SchemaViolation"
    /\ call[c].error.val.data = call[c].data
    /\ call[c].error.val.errors # {}
    /\ LET data == call[c].data.val
       IN  /\ (data.t = "obj" /\ Lookup(data, "quiz").t = "missing") =>
                FieldError("quiz", "missing") \in call[c].error.val.errors
           /\ (data.t = "obj" /\ Lookup(data, "summary").t = "missing") =>
                FieldError("summary", "missing") \in call[c].error.val.errors

\* C4 as stated: a quiz call whose parsed data misses a required field or has
\* a field of another type than the schema's ends Failed with SchemaViolation,
\* with the validation errors and the data in the error and no result.
C4_WrongTypeRejected ==
    \A c \in Calls :
        (Done(c) /\ call[c].data.some /\ ~HasShape(call[c].data.val, FALSE)) =>
            SchemaViolationRaised(c)

\* C4, amended: a quiz call whose parsed data misses a required field or has a
\* field whose value cannot be coerced to the schema's type ends Failed with
\* SchemaViolation; the error holds the validation errors (for a missing quiz
\* or summary, the line that names it) and the parsed data; there is no result.
C4_UncoercibleRejected ==
    \A c \in Calls :
        (Done(c) /\ call[c].data.some /\ ~HasShape(call[c].data.val, TRUE)) =>
            SchemaViolationRaised(c)

\* the call answered {"summary": "x"} has failed on the missing quiz
C4_Witness ==
    \E c \in Calls :
        /\ Done(c)
        /\ call[c].data = Some(JObj(<< <<"summary", JStr("x")>> >>))
        /\ call[c].error.val.kind = "SchemaViolation"
        /\ call[c].error.val.errors = {FieldError("quiz", "missing")}

-----------------------------------------------------------------------------
(* C5 *)

\* C5 as stated: normalizing the normalized text again changes nothing.
C5_Idempotent ==
    \A c \in Calls :
        call[c].raw_text.some => Normalize(call[c].raw_text.val) = call[c].raw_text.val

\* C5, amended: normalizing the normalized text again changes nothing exactly
\* when the normalized text has no whitespace at either end and does not begin
\* with the fence; this is so for every response text that does not begin with
\* the fence once trimmed.
C5_IdempotentWhenNoFenceLeft ==
    \A c \in Calls :
        call[c].raw_text.some =>
            LET raw == call[c].raw_text.val
            IN  /\ (Normalize(raw) = raw) <=>
                     (NoOuterWhitespace(raw) /\ ~StartsWith(raw, Fence))
                /\ ~Fenced(c) => Normalize(raw) = raw

\* a fenced, tagged response was normalized to {}, on which a second pass
\* changes nothing
C5_Witness ==
    \E c \in Calls :
        /\ Fenced(c)
        /\ call[c].raw_text = Some("{}")
        /\ Normalize("{}") = "{}"

-----------------------------------------------------------------------------
(* C6 *)

\* C6 as stated: the normalized text of a fenced response holds no backtick.
C6_NoTickLeft ==
    \A c \in Calls :
        (call[c].raw_text.some /\ Fenced(c)) => CountOf(call[c].raw_text.val, Tick) = 0

\* C6, amended: of a fenced response, the normalizer strips the backticks at
\* the two ends of the trimmed text and keeps every backtick between them; if
\* what is left begins with json, the tag is removed and the rest is trimmed.
C6_OuterTicksStripped ==
    \A c \in Calls :
        (call[c].raw_text.some /\ Fenced(c)) =>
            LET inner == Core(Core(Text(c), Whitespace), {Tick})
                raw == call[c].raw_text.val
            IN  /\ CountOf(raw, Tick) = CountOf(inner, Tick)
                /\ raw = IF StartsWith(inner, JsonTag)
                         THEN Core(DropFirst(inner, JsonTagLen), Whitespace)
                         ELSE inner

\* a fenced, tagged response with a backtick inside was normalized; the
\* backtick is still there
C6_Witness ==
    \E c \in Calls :
        /\ HasText(c)
        /\ Text(c) = Fence \o JsonTag \o "a^b"
        /\ call[c].raw_text = Some("a^b")

-----------------------------------------------------------------------------
(* C7 *)

\* C7: a quiz call whose parsed data has the fields of the schema with their
\* types ends in Success with as many entries, choices and the indices as the
\* data has, whatever num_questions is, however many choices an entry has and
\* wherever its correct_index points; Success or Failed depends on the parsed
\* data alone.
C7_PromptRequirementsNotEnforced ==
    \A c \in Calls :
        (Done(c) /\ call[c].op \in QuizOperations) =>
            /\ (call[c].status = "Success") <=>
                 (call[c].data.some /\ HasShape(call[c].data.val, TRUE))
            /\ (call[c].data.some /\ HasShape(call[c].data.val, FALSE)) =>
                 LET quiz == Lookup(call[c].data.val, "quiz").l
                     result == call[c].result.val
                 IN  /\ call[c].status = "Success"
                     /\ Len(result.quiz) = Len(quiz)
                     /\ \A k \in 1..Len(quiz) :
                          /\ Len(result.quiz[k].choices) = Len(Lookup(quiz[k], "choices").l)
                          /\ result.quiz[k].correct_index = Lookup(quiz[k], "correct_index").i

\* a call for 2 questions has returned 1 entry, with 3 choices and
\* correct_index 5
C7_Witness ==
    \E c \in Calls :
        /\ Done(c)
        /\ call[c].status = "Success"
        /\ call[c].num_questions = 2
        /\ Len(call[c].result.val.quiz) = 1
        /\ Len(call[c].result.val.quiz[1].choices) = 3
        /\ call[c].result.val.quiz[1].correct_index = 5

-----------------------------------------------------------------------------
(* C8 *)

\* C8: a URL operation whose fetch raised (a non-success status, no
\* connection) has ended Failed with DownloadFailure, the error holding the
\* stripped URL and what httpx raised, and has not invoked the generation
\* service; a URL operation that has invoked it has fetched the PDF before.
C8_DownloadFailureBeforeGeneration ==
    \A c \in Calls :
        LET r == call[c]
        IN  /\ (r.fetched.some /\ r.fetched.val # "ok") =>
                 /\ r.pc = "done"
                 /\ r.status = "Failed"
                 /\ ~r.result.some
                 /\ r.error.val.exc = "RuntimeError"
                 /\ r.error.val.kind = "DownloadFailure"
                 /\ r.error.val.url = Some(Core(r.pdf_url, Whitespace))
                 /\ r.error.val.cause = r.fetched.val
                 /\ r.gen_calls = 0
                 /\ ~r.answer.some
            /\ (r.op \in UrlOperations /\ r.gen_calls > 0) =>
                 r.fetched = Some("ok") /\ r.pdf_bytes.some

\* the fetch of " http://h/b.pdf\n" returned a non-success status
C8_Witness ==
    \E c \in Calls :
        /\ Done(c)
        /\ call[c].pdf_url = " http://h/b.pdf\n"
        /\ call[c].fetched = Some("HTTPStatusError")
        /\ call[c].error.val.url = Some("http://h/b.pdf")
        /\ call[c].gen_calls = 0

-----------------------------------------------------------------------------
(* C9 *)

\* what call c holds follows from its own arguments and its own answer
OwnState(c) ==
    LET r == call[c]
    IN  /\ r.raw_text.some => HasText(c) /\ r.raw_text.val = Normalize(Text(c))
        /\ r.data.some => JsonLoads(r.raw_text.val) = [ok |-> TRUE, v |-> r.data.val]
        /\ r.result.some => ParseObj(r.data.val) = [ok |-> TRUE, result |-> r.result.val]
        /\ (r.error.some /\ r.error.val.snippet.some) =>
             r.error.val.snippet.val = Snippet(Normalize(Text(c)))
        /\ (r.error.some /\ r.error.val.data.some) => r.error.val.data = r.data

\* two finished calls with the same answer have the same outcome
SameAnswerSameOutcome ==
    \A c, d \in Calls :
        (Done(c) /\ Done(d) /\ call[c].answer = call[d].answer) =>
            /\ call[c].status = call[d].status
            /\ call[c].result = call[d].result
            /\ call[c].error = call[d].error

\* a step changes the state of one call and leaves the client handle alone
OneCallSteps ==
    /\ client' = client
    /\ \A c, d \in Calls : (c # d /\ call'[c] # call[c]) => call'[d] = call[d]

\* C9: under any interleaving of concurrent calls, every step changes one
\* call's state and never the client handle, what a call holds is computed from
\* its own arguments and answer, and calls with the same answer end the same.
C9_CallsIndependent ==
    /\ [](\A c \in Calls : OwnState(c))
    /\ []SameAnswerSameOutcome
    /\ [][OneCallSteps]_vars

\* call 1 has returned its result while call 2, given another answer, is
\* between normalizing and parsing
C9_Witness ==
    /\ Cardinality(Calls) >= 2
    /\ Done(1) /\ call[1].status = "Success"
    /\ call[2].pc = "parsing"
    /\ call[2].answer # call[1].answer
    /\ client = ClientHandle

-----------------------------------------------------------------------------
(* C10 *)

\* C10: a failed call has the kind GenerationFailure exactly when the
\* generation call raised, MalformedResponse exactly when its normalized text
\* is no JSON, SchemaViolation exactly when its parsed data was rejected.
C10_KindNamesFailedStep ==
    \A c \in Calls :
        LET r == call[c]
        IN  (Done(c) /\ r.status = "Failed") =>
                /\ (r.error.val.kind = "GenerationFailure") <=>
                     (r.answer.some /\ r.answer.val.raised)
                /\ (r.error.val.kind = "MalformedResponse") <=>
                     (r.raw_text.some /\ ~JsonLoads(r.raw_text.val).ok)
                /\ (r.error.val.kind = "SchemaViolation") <=>
                     (r.data.some /\ ~ParseObj(r.data.val).ok)

====
